---- MODULE Spec2Model ----
(***************************************************************************)
(* Request-lifecycle model of the storefront: the root loader's script     *)
(* preference negotiation (app/root.tsx), and the product route's loader   *)
(* and checkout action (app/routes/products.$handle.tsx).                  *)
(*                                                                         *)
(* JavaScript values are written as strings: "true", "false", "undefined"  *)
(* and "null", so that a value that may be a boolean or undefined has one  *)
(* type in the model.                                                      *)
(***************************************************************************)
EXTENDS Naturals, Sequences, FiniteSets

VARIABLES
    cookie,      \* the Cookie header the visitor's browser presents
    req,         \* the request being handled
    rootRes,     \* what the root loader returned for this request
    prodRead,    \* the promise of sdk.ProductByHandle
    listRead,    \* the promise of sdk.Products
    loaderRes,   \* what the product loader returned or threw
    checkout,    \* the promise of sdk.CreateCheckout
    actionRes,   \* what the action returned or threw
    calls,       \* catalog operations invoked during this request
    sessionOps,  \* session.get / session.set calls during this request
    page,        \* the product page rendered from the loaders' data
    boundary,    \* what the root CatchBoundary made of a caught response
    lastOverride \* history: value of the visitor's most recent ?js= override

vars == <<cookie, req, rootRes, prodRead, listRead, loaderRes, checkout,
          actionRes, calls, sessionOps, page, boundary, lastOverride>>

-----------------------------------------------------------------------------
(* Bounds and input domains *)

\* longest product list the catalog returns in the model
MaxList == 6

\* products.edges.slice(0, 4)
RelatedLimit == 4

Handles == {"h1", "h2", "h3"}

ProductLists == UNION {[1..n -> Handles] : n \in 0..MaxList}

\* url.searchParams.get("js"): "absent" stands for searchParams.has("js") = false
JsParams == {"absent", "1", "0", "", "true"}

\* formData.get("variantId"): "null" when the field is missing
VariantIds == {"null", "", "v1", "v2"}

\* request.url of the product page of a handle
PageUrl(handle) ==
    CASE handle = "h1" -> "/products/h1"
      [] handle = "h2" -> "/products/h2"
      [] OTHER         -> "/products/h3"

\* checkout.webUrl values: pages of the hosted checkout, never a product page
WebUrls == {"https://checkout.example/c1", "https://checkout.example/c2"}

\* Cookie header values a browser can present: none at all, something this
\* system did not issue, or one of the Set-Cookie values it issued
Cookies == {"none", "garbage", "{}", "{js:false}", "{js:true}"}

-----------------------------------------------------------------------------
(* Session codec (app/session.server): the session's data is the value     *)
(* stored under "js", "undefined" when the key is absent.                  *)

\* getSession(cookieHeader): a missing or unreadable cookie is the empty bag
getSession(header) ==
    CASE header = "{js:true}"  -> "true"
      [] header = "{js:false}" -> "false"
      [] OTHER                 -> "undefined"

\* commitSession(session): the Set-Cookie value for the bag
commitSession(session) ==
    CASE session = "true"  -> "{js:true}"
      [] session = "false" -> "{js:false}"
      [] OTHER             -> "{}"

-----------------------------------------------------------------------------
(* app/root.tsx *)

\* a JavaScript boolean
Bool(b) == IF b THEN "true" ELSE "false"

\* negotiate without session.set("js", enableJS) on the override path
negotiateNoSet(js, session) ==
    IF js # "absent"
    THEN [enableJS |-> Bool(js = "1"), session |-> session,
          gets |-> 0, sets |-> 0]
    ELSE [enableJS |-> session, session |-> session,
          gets |-> 1, sets |-> 0]

\* negotiate without the else branch: enableJS keeps its initial false
negotiateNoRead(js, session) ==
    IF js # "absent"
    THEN [enableJS |-> Bool(js = "1"), session |-> Bool(js = "1"),
          gets |-> 0, sets |-> 1]
    ELSE [enableJS |-> "false", session |-> session,
          gets |-> 0, sets |-> 0]

\* negotiate with session.set("js", enableJS) after the if, on both paths,
\* the flag read from an empty session defaulted to false
negotiateAlwaysSet(js, session) ==
    IF js # "absent"
    THEN [enableJS |-> Bool(js = "1"), session |-> Bool(js = "1"),
          gets |-> 0, sets |-> 1]
    ELSE [enableJS |-> Bool(session = "true"), session |-> Bool(session = "true"),
          gets |-> 1, sets |-> 1]

\* negotiate that reads session.get("js") before it looks at the URL
negotiateReadFirst(js, session) ==
    IF js # "absent"
    THEN [enableJS |-> Bool(js = "1"), session |-> Bool(js = "1"),
          gets |-> 1, sets |-> 1]
    ELSE [enableJS |-> session, session |-> session,
          gets |-> 1, sets |-> 0]

\* negotiate that takes "true" for an enabling value as well as "1"
negotiateLenient(js, session) ==
    IF js # "absent"
    THEN [enableJS |-> Bool(js \in {"1", "true"}),
          session |-> Bool(js \in {"1", "true"}),
          gets |-> 0, sets |-> 1]
    ELSE [enableJS |-> session, session |-> session,
          gets |-> 1, sets |-> 0]

\* negotiate that removes the key from the session when the override is off
negotiateUnset(js, session) ==
    IF js # "absent"
    THEN [enableJS |-> Bool(js = "1"),
          session |-> IF js = "1" THEN "true" ELSE "undefined",
          gets |-> 0, sets |-> 1]
    ELSE [enableJS |-> session, session |-> session,
          gets |-> 1, sets |-> 0]

\* root.tsx loader, lines 34-47: the flag and the session after negotiation
negotiate(js, session) ==
    IF js # "absent"
    THEN [enableJS |-> Bool(js = "1"), session |-> Bool(js = "1"),
          gets |-> 0, sets |-> 1]
    ELSE [enableJS |-> session, session |-> session,
          gets |-> 1, sets |-> 0]

\* Document: {enableJS && <Scripts />}
Scripts(enableJS) == enableJS = "true"

NoRootRes == [status |-> "none", js |-> "undefined", session |-> "undefined",
              setCookie |-> "none"]

-----------------------------------------------------------------------------
(* app/routes/products.$handle.tsx: loader *)

Min(a, b) == IF a < b THEN a ELSE b

\* Array.prototype.filter with (item) => item.node.handle !== params.handle
filter(edges, handle) == SelectSeq(edges, LAMBDA item : item # handle)

\* Array.prototype.slice(0, end)
slice(edges, end) == SubSeq(edges, 1, Min(end, Len(edges)))

\* relatedProducts without the filter
relatedProductsNoFilter(edges, handle) == slice(edges, RelatedLimit)

\* relatedProducts with slice and filter in the other order
relatedProductsSliceFirst(edges, handle) ==
    filter(slice(edges, RelatedLimit), handle)

\* lines 34-36
relatedProducts(edges, handle) == slice(filter(edges, handle), RelatedLimit)

\* a promise: "idle" before the call is made, then pending, then settled
Idle == [state |-> "idle", value |-> "undefined"]
Pending == [state |-> "pending", value |-> "undefined"]
Fulfilled(v) == [state |-> "fulfilled", value |-> v]
Rejected == [state |-> "rejected", value |-> "CatalogUnavailable"]

\* the promise of sdk.Products carries a list
IdleList == [state |-> "idle", value |-> <<>>]
PendingList == [state |-> "pending", value |-> <<>>]
RejectedList == [state |-> "rejected", value |-> <<>>]

\* Promise.allSettled in the place of Promise.all: never rejected
PromiseAllSettled(p, q) ==
    IF p.state \in {"fulfilled", "rejected"} /\ q.state \in {"fulfilled", "rejected"}
    THEN "fulfilled"
    ELSE "pending"

\* Promise.all([p, q]): rejected as soon as one is, fulfilled when both are
PromiseAll(p, q) ==
    IF p.state = "rejected" \/ q.state = "rejected" THEN "rejected"
    ELSE IF p.state = "fulfilled" /\ q.state = "fulfilled" THEN "fulfilled"
    ELSE "pending"

\* lines 42-43
CacheControl == "max-age=60, s-maxage=3600, stale-while-revalidate=604800"

NoLoaderRes == [status |-> "none", product |-> "null", relatedProducts |-> <<>>,
                cacheControl |-> "none"]

\* lines 34-46: the json response built from the two results
loaderJson(product, edges, handle) ==
    [status |-> "ok", product |-> product,
     relatedProducts |-> relatedProducts(edges, handle),
     cacheControl |-> CacheControl]

\* the rejection of Promise.all leaves the loader through its await
loaderThrow == [status |-> "throw", product |-> "null", relatedProducts |-> <<>>,
                cacheControl |-> "none"]

\* lines 29-46, from the await on: what the loader does once Promise.all settles
loaderSettled(p, q, handle) ==
    IF PromiseAll(p, q) = "rejected"
    THEN loaderThrow
    ELSE loaderJson(p.value, q.value, handle)

-----------------------------------------------------------------------------
(* app/routes/products.$handle.tsx: action *)

\* a test for null in the place of the truthiness test
NotNull(v) == v # "null"

\* JavaScript truthiness of formData.get("variantId")
Truthy(v) == v \notin {"null", "", "undefined"}

NoActionRes == [status |-> "none", location |-> "none", cacheControl |-> "none"]

\* redirect(url): a response with a Location header and no other
redirect(url) == [status |-> "redirect", location |-> url, cacheControl |-> "none"]

actionThrow == [status |-> "throw", location |-> "none", cacheControl |-> "none"]

\* responses of the CreateCheckout mutation
NoPayload == [checkoutCreate |-> "null", checkout |-> "null"]
NoCheckout == [checkoutCreate |-> "object", checkout |-> "null"]
Created(webUrl) == [checkoutCreate |-> "object", checkout |-> webUrl]

CheckoutResults == {NoPayload, NoCheckout} \cup {Created(w) : w \in WebUrls}

IdleCheckout == [state |-> "idle", value |-> NoPayload]
PendingCheckout == [state |-> "pending", value |-> NoPayload]
RejectedCheckout == [state |-> "rejected", value |-> NoPayload]

\* actionRedirect with the test inverted
actionRedirectInverted(res, url) ==
    IF res.checkoutCreate = "null" \/ res.checkout = "null"
    THEN redirect(res.checkout)
    ELSE redirect(url)

\* actionRedirect with res.checkoutCreate.checkout in the place of
\* res.checkoutCreate?.checkout: a TypeError when checkoutCreate is null
actionRedirectNoOptional(res, url) ==
    IF res.checkoutCreate = "null" THEN actionThrow
    ELSE IF res.checkout = "null" THEN redirect(url)
    ELSE redirect(res.checkout)

\* lines 62-66: res.checkoutCreate?.checkout and the redirect it selects
actionRedirect(res, url) ==
    IF res.checkoutCreate = "null" \/ res.checkout = "null"
    THEN redirect(url)
    ELSE redirect(res.checkout)

\* actionSettled with the call wrapped in a try/catch that redirects back
actionSettledCatch(p, url) ==
    IF p.state = "rejected"
    THEN redirect(url)
    ELSE actionRedirect(p.value, url)

\* lines 60-66: the action after its await on sdk.CreateCheckout
actionSettled(p, url) ==
    IF p.state = "rejected"
    THEN actionThrow
    ELSE actionRedirect(p.value, url)

-----------------------------------------------------------------------------
(* app/routes/products.$handle.tsx: headers, meta, ProductPage *)

\* headers that puts a directive of its own in the place of the loader's
headersOwn(cacheControl) == "no-cache"

\* lines 69-73: loaderHeaders.get("Cache-Control") ?? "", "none" standing for
\* the null of a header that is not set
headers(cacheControl) == IF cacheControl = "none" THEN "" ELSE cacheControl

\* product.title of the product of a handle
ProductTitle(handle) ==
    CASE handle = "h1" -> "Title of h1"
      [] handle = "h2" -> "Title of h2"
      [] OTHER         -> "Title of h3"

\* meta without the test of data.product: the title of null is a TypeError
metaNoGuard(product) ==
    IF product = "null" THEN "TypeError" ELSE ProductTitle(product)

\* lines 75-83: the title of the page
meta(product) ==
    IF product = "null" THEN "Product not found" ELSE ProductTitle(product)

\* lines 85-91: what ProductPage renders
ProductPage(product) ==
    IF product = "null" THEN "Product not found" ELSE "product"

NoPage == [status |-> "none", title |-> "none", body |-> "none",
           cacheControl |-> "none", scripts |-> FALSE]

-----------------------------------------------------------------------------
(* app/root.tsx: CatchBoundary *)

\* caught.status values
Statuses == {400, 401, 403, 404, 500, 503}

NoBoundary == [outcome |-> "none", status |-> 0]

\* CatchBoundary with a default case that renders like the handled ones
CatchBoundaryRenderAll(status) == [outcome |-> "page", status |-> status]

\* lines 97-116: the switch over caught.status
CatchBoundary(status) ==
    IF status \in {401, 404}
    THEN [outcome |-> "page", status |-> status]
    ELSE [outcome |-> "throw", status |-> status]

-----------------------------------------------------------------------------
(* The requests of one visitor, one at a time *)

NoReq == [kind |-> "none", handle |-> "h1", js |-> "absent", variantId |-> "null"]

NoCalls == [ProductByHandle |-> 0, Products |-> 0, CreateCheckout |-> 0]

NoSessionOps == [gets |-> 0, sets |-> 0]

Init ==
    /\ cookie \in {"none", "garbage"}
    /\ req = NoReq
    /\ rootRes = NoRootRes
    /\ prodRead = Idle
    /\ listRead = IdleList
    /\ loaderRes = NoLoaderRes
    /\ checkout = IdleCheckout
    /\ actionRes = NoActionRes
    /\ calls = NoCalls
    /\ sessionOps = NoSessionOps
    /\ page = NoPage
    /\ boundary = NoBoundary
    /\ lastOverride = "none"

\* GET /products/:handle[?js=...]: the root loader and the route loader are
\* both to run
PageRequest ==
    /\ req.kind = "none"
    /\ \E handle \in Handles, js \in JsParams :
          req' = [kind |-> "page", handle |-> handle, js |-> js,
                  variantId |-> "null"]
    /\ rootRes' = [NoRootRes EXCEPT !.status = "pending"]
    /\ loaderRes' = [NoLoaderRes EXCEPT !.status = "pending"]
    /\ UNCHANGED <<cookie, prodRead, listRead, checkout, actionRes, calls,
                   sessionOps, lastOverride, page, boundary>>

\* RootLoader that commits the session only when it has written to it
RootLoaderCommitOnWrite ==
    /\ req.kind = "page"
    /\ rootRes.status = "pending"
    /\ LET n == negotiate(req.js, getSession(cookie))
       IN /\ rootRes' = [status |-> "ok", js |-> n.enableJS,
                         session |-> n.session,
                         setCookie |-> IF n.sets > 0
                                       THEN commitSession(n.session)
                                       ELSE "none"]
          /\ sessionOps' = [gets |-> sessionOps.gets + n.gets,
                            sets |-> sessionOps.sets + n.sets]
    /\ lastOverride' = IF req.js = "absent" THEN lastOverride
                       ELSE Bool(req.js = "1")
    /\ UNCHANGED <<cookie, req, prodRead, listRead, loaderRes, checkout,
                   actionRes, calls, page, boundary>>

\* root.tsx loader, lines 30-48
RootLoader ==
    /\ req.kind = "page"
    /\ rootRes.status = "pending"
    /\ LET n == negotiate(req.js, getSession(cookie))
       IN /\ rootRes' = [status |-> "ok", js |-> n.enableJS,
                         session |-> n.session,
                         setCookie |-> commitSession(n.session)]
          /\ sessionOps' = [gets |-> sessionOps.gets + n.gets,
                            sets |-> sessionOps.sets + n.sets]
    /\ lastOverride' = IF req.js = "absent" THEN lastOverride
                       ELSE Bool(req.js = "1")
    /\ UNCHANGED <<cookie, req, prodRead, listRead, loaderRes, checkout,
                   actionRes, calls, page, boundary>>

\* LoaderStart that awaits sdk.ProductByHandle before it calls sdk.Products
LoaderStartSequential ==
    /\ req.kind = "page"
    /\ loaderRes.status = "pending"
    /\ prodRead' = Pending
    /\ calls' = [calls EXCEPT !.ProductByHandle = @ + 1]
    /\ loaderRes' = [loaderRes EXCEPT !.status = "awaiting"]
    /\ UNCHANGED <<cookie, req, rootRes, listRead, checkout, actionRes,
                   sessionOps, lastOverride, page, boundary>>

\* products.$handle.tsx loader, lines 28-32: both reads are called, then the
\* loader awaits Promise.all
LoaderStart ==
    /\ req.kind = "page"
    /\ loaderRes.status = "pending"
    /\ prodRead' = Pending
    /\ listRead' = PendingList
    /\ calls' = [calls EXCEPT !.ProductByHandle = @ + 1, !.Products = @ + 1]
    /\ loaderRes' = [loaderRes EXCEPT !.status = "awaiting"]
    /\ UNCHANGED <<cookie, req, rootRes, checkout, actionRes, sessionOps,
                   lastOverride, page, boundary>>

\* the catalog answers ProductByHandle: the product of that handle, null when
\* it has none, or a transport failure
SettleProduct ==
    /\ prodRead.state = "pending"
    /\ \E r \in {Fulfilled(req.handle), Fulfilled("null"), Rejected} :
          prodRead' = r
    /\ UNCHANGED <<cookie, req, rootRes, listRead, loaderRes, checkout,
                   actionRes, calls, sessionOps, lastOverride, page, boundary>>

\* the catalog answers Products: a list of products, or a transport failure
SettleList ==
    /\ listRead.state = "pending"
    /\ \E r \in {Fulfilled(l) : l \in ProductLists} \cup {RejectedList} :
          listRead' = r
    /\ UNCHANGED <<cookie, req, rootRes, prodRead, loaderRes, checkout,
                   actionRes, calls, sessionOps, lastOverride, page, boundary>>

\* LoaderResume that calls both reads once more after a first failure
LoaderResumeRetry ==
    /\ loaderRes.status = "awaiting"
    /\ PromiseAll(prodRead, listRead) # "pending"
    /\ IF PromiseAll(prodRead, listRead) = "rejected" /\ calls.Products < 2
       THEN /\ prodRead' = Pending
            /\ listRead' = PendingList
            /\ calls' = [calls EXCEPT !.ProductByHandle = @ + 1,
                                      !.Products = @ + 1]
            /\ UNCHANGED loaderRes
       ELSE /\ loaderRes' = loaderSettled(prodRead, listRead, req.handle)
            /\ UNCHANGED <<prodRead, listRead, calls>>
    /\ UNCHANGED <<cookie, req, rootRes, checkout, actionRes, sessionOps,
                   lastOverride, page, boundary>>

\* products.$handle.tsx loader, lines 29-46: Promise.all has settled and the
\* loader returns its response or throws
LoaderResume ==
    /\ loaderRes.status = "awaiting"
    /\ PromiseAll(prodRead, listRead) # "pending"
    /\ loaderRes' = loaderSettled(prodRead, listRead, req.handle)
    /\ UNCHANGED <<cookie, req, rootRes, prodRead, listRead, checkout,
                   actionRes, calls, sessionOps, lastOverride, page, boundary>>

\* both loaders have returned: the document is rendered from their data, with
\* the route's meta and headers
Render ==
    /\ req.kind = "page"
    /\ rootRes.status = "ok"
    /\ loaderRes.status = "ok"
    /\ page.status = "none"
    /\ page' = [status |-> "rendered",
                title |-> meta(loaderRes.product),
                body |-> ProductPage(loaderRes.product),
                cacheControl |-> headers(loaderRes.cacheControl),
                scripts |-> Scripts(rootRes.js)]
    /\ UNCHANGED <<cookie, req, rootRes, prodRead, listRead, loaderRes,
                   checkout, actionRes, calls, sessionOps, boundary,
                   lastOverride>>

\* a request whose route threw a response: the root CatchBoundary renders it
CaughtResponse ==
    /\ req.kind = "none"
    /\ \E handle \in Handles :
          req' = [kind |-> "caught", handle |-> handle, js |-> "absent",
                  variantId |-> "null"]
    /\ \E status \in Statuses : boundary' = CatchBoundary(status)
    /\ UNCHANGED <<cookie, rootRes, prodRead, listRead, loaderRes, checkout,
                   actionRes, calls, sessionOps, page, lastOverride>>

\* POST /products/:handle with a form body
MutationRequest ==
    /\ req.kind = "none"
    /\ \E handle \in Handles, variantId \in VariantIds :
          req' = [kind |-> "mutation", handle |-> handle, js |-> "absent",
                  variantId |-> variantId]
    /\ actionRes' = [NoActionRes EXCEPT !.status = "pending"]
    /\ UNCHANGED <<cookie, rootRes, prodRead, listRead, loaderRes, checkout,
                   calls, sessionOps, lastOverride, page, boundary>>

\* products.$handle.tsx action, lines 49-60: up to the await
ActionStart ==
    /\ req.kind = "mutation"
    /\ actionRes.status = "pending"
    /\ IF ~Truthy(req.variantId)
       THEN /\ actionRes' = redirect(PageUrl(req.handle))
            /\ UNCHANGED <<checkout, calls>>
       ELSE /\ checkout' = PendingCheckout
            /\ calls' = [calls EXCEPT !.CreateCheckout = @ + 1]
            /\ actionRes' = [actionRes EXCEPT !.status = "awaiting"]
    /\ UNCHANGED <<cookie, req, rootRes, prodRead, listRead, loaderRes,
                   sessionOps, lastOverride, page, boundary>>

\* the catalog answers CreateCheckout
SettleCheckout ==
    /\ checkout.state = "pending"
    /\ \E r \in {Fulfilled(c) : c \in CheckoutResults} \cup {RejectedCheckout} :
          checkout' = r
    /\ UNCHANGED <<cookie, req, rootRes, prodRead, listRead, loaderRes,
                   actionRes, calls, sessionOps, lastOverride, page, boundary>>

\* products.$handle.tsx action, lines 60-66: after the await
ActionResume ==
    /\ actionRes.status = "awaiting"
    /\ checkout.state # "pending"
    /\ actionRes' = actionSettled(checkout, PageUrl(req.handle))
    /\ UNCHANGED <<cookie, req, rootRes, prodRead, listRead, loaderRes,
                   checkout, calls, sessionOps, lastOverride, page, boundary>>

\* the response has been sent and nothing of the request is in flight: the
\* browser keeps the Set-Cookie of a page response
Respond ==
    /\ \/ /\ req.kind = "page"
          /\ rootRes.status = "ok"
          /\ \/ loaderRes.status = "throw"
             \/ page.status = "rendered"
          /\ prodRead.state # "pending" /\ listRead.state # "pending"
          /\ cookie' = rootRes.setCookie
       \/ /\ req.kind = "mutation"
          /\ actionRes.status \in {"redirect", "throw"}
          /\ cookie' = cookie
       \/ /\ req.kind = "caught"
          /\ cookie' = cookie
    /\ req' = NoReq
    /\ rootRes' = NoRootRes
    /\ prodRead' = Idle
    /\ listRead' = IdleList
    /\ loaderRes' = NoLoaderRes
    /\ checkout' = IdleCheckout
    /\ actionRes' = NoActionRes
    /\ calls' = NoCalls
    /\ sessionOps' = NoSessionOps
    /\ page' = NoPage
    /\ boundary' = NoBoundary
    /\ UNCHANGED lastOverride

Next ==
    \/ PageRequest
    \/ RootLoader
    \/ LoaderStart
    \/ SettleProduct
    \/ SettleList
    \/ LoaderResume
    \/ Render
    \/ CaughtResponse
    \/ MutationRequest
    \/ ActionStart
    \/ SettleCheckout
    \/ ActionResume
    \/ Respond

Spec == Init /\ [][Next]_vars

-----------------------------------------------------------------------------
(* Properties *)

\* the product loader has returned its json response
LoaderReturned == req.kind = "page" /\ loaderRes.status = "ok"

\* the root loader has returned its response
RootReturned == req.kind = "page" /\ rootRes.status = "ok"

\* the action has returned a redirect to url
RedirectsTo(url) == actionRes.status = "redirect" /\ actionRes.location = url

\* the action has returned or thrown
ActionDone == req.kind = "mutation" /\ actionRes.status \in {"redirect", "throw"}

\* C1: whatever the requested handle and the list the catalog returned, the
\* relatedProducts of the loader's response holds no entry with the requested
\* handle and has at most 4 entries.
C1_RelatedExcludesSelfAtMost4 ==
    LoaderReturned =>
        /\ Len(loaderRes.relatedProducts) <= 4
        /\ \A i \in 1..Len(loaderRes.relatedProducts) :
              loaderRes.relatedProducts[i] # req.handle

\* a list of 6 that holds the requested handle, of which 4 entries were kept
C1_Witness ==
    /\ LoaderReturned
    /\ Len(listRead.value) = 6
    /\ \E i \in 1..Len(listRead.value) : listRead.value[i] = req.handle
    /\ Len(loaderRes.relatedProducts) = 4

\* the reference result: walk the list in order, skip the entries with the
\* requested handle, stop after n kept entries
RECURSIVE Reference(_, _, _)
Reference(list, handle, n) ==
    IF list = <<>> \/ n = 0 THEN <<>>
    ELSE IF Head(list) = handle THEN Reference(Tail(list), handle, n)
    ELSE <<Head(list)>> \o Reference(Tail(list), handle, n - 1)

\* C2: relatedProducts is the catalog list without the entries of the
\* requested handle, cut to its first 4 entries, in the catalog's order.
C2_RelatedIsReference ==
    LoaderReturned =>
        loaderRes.relatedProducts = Reference(listRead.value, req.handle, 4)

\* the requested handle stands among the first 4 of a list of which more than
\* 4 other entries remain, and the kept entries are not all the same
C2_Witness ==
    /\ LoaderReturned
    /\ \E i \in 1..4 : i <= Len(listRead.value) /\ listRead.value[i] = req.handle
    /\ Len(filter(listRead.value, req.handle)) > 4
    /\ loaderRes.relatedProducts[1] # loaderRes.relatedProducts[4]

\* C3: with ?js=1 the flag is true whatever the session the cookie decoded
\* to, and the session committed in the response holds js = true.
C3_OverrideOneWins ==
    (RootReturned /\ req.js = "1") =>
        /\ rootRes.js = "true"
        /\ Scripts(rootRes.js)
        /\ rootRes.session = "true"
        /\ getSession(rootRes.setCookie) = "true"

\* ?js=1 on a request whose cookie held js = false
C3_Witness ==
    /\ RootReturned
    /\ req.js = "1"
    /\ getSession(cookie) = "false"

\* C4: once the visitor has overridden the flag, the session the browser
\* holds carries the value of the most recent override, through any number of
\* requests, and every request without an override resolves the flag to it.
C4_PreferenceSticks ==
    lastOverride # "none" =>
        /\ rootRes.status # "ok" => getSession(cookie) = lastOverride
        /\ rootRes.status = "ok" => getSession(rootRes.setCookie) = lastOverride
        /\ (RootReturned /\ req.js = "absent") => rootRes.js = lastOverride

\* a request without an override answered true from an earlier ?js=1
C4_Witness ==
    /\ RootReturned
    /\ req.js = "absent"
    /\ lastOverride = "true"
    /\ rootRes.js = "true"

\* C5: without an override the flag is the session's js value, an empty
\* session rendering without script, and the session committed is the one
\* decoded: an absent js stays absent.
C5_NoOverrideReadsOnly ==
    (RootReturned /\ req.js = "absent") =>
        /\ getSession(cookie) # "undefined" => rootRes.js = getSession(cookie)
        /\ Scripts(rootRes.js) = (getSession(cookie) = "true")
        /\ rootRes.session = getSession(cookie)
        /\ getSession(rootRes.setCookie) = getSession(cookie)

\* a request without an override from a visitor with no preference
C5_Witness ==
    /\ RootReturned
    /\ req.js = "absent"
    /\ getSession(cookie) = "undefined"
    /\ ~Scripts(rootRes.js)
    /\ rootRes.session = "undefined"

\* C6: a mutation whose variantId is missing or empty is answered by a
\* redirect to the request's own URL, and calls no catalog operation.
C6_EmptyVariantRedirectsBack ==
    (req.kind = "mutation" /\ req.variantId \in {"null", ""}) =>
        /\ calls = NoCalls
        /\ checkout.state = "idle"
        /\ actionRes.status # "pending" =>
              RedirectsTo(PageUrl(req.handle))

\* the action has answered a submission with an empty variantId
C6_Witness ==
    /\ ActionDone
    /\ req.variantId = ""
    /\ actionRes.status = "redirect"

\* C7: when CreateCheckout returns a checkout, the action redirects to that
\* checkout's webUrl and not to the page.
C7_CheckoutRedirectsToWebUrl ==
    (ActionDone /\ checkout.state = "fulfilled"
                /\ checkout.value.checkoutCreate # "null"
                /\ checkout.value.checkout # "null") =>
        /\ RedirectsTo(checkout.value.checkout)
        /\ actionRes.location \in WebUrls
        /\ actionRes.location # PageUrl(req.handle)

\* the action has answered a submission for which a checkout was created
C7_Witness ==
    /\ ActionDone
    /\ Truthy(req.variantId)
    /\ checkout = Fulfilled(Created("https://checkout.example/c2"))
    /\ actionRes.location = "https://checkout.example/c2"

\* C8: when CreateCheckout answers without a checkout, the action redirects
\* to the request's own URL and throws nothing.
C8_DeclinedRedirectsBack ==
    (ActionDone /\ checkout.state = "fulfilled"
                /\ (checkout.value.checkoutCreate = "null"
                     \/ checkout.value.checkout = "null")) =>
        RedirectsTo(PageUrl(req.handle))

\* the action has answered a submission whose mutation returned no payload
C8_Witness ==
    /\ ActionDone
    /\ Truthy(req.variantId)
    /\ checkout = Fulfilled(NoPayload)
    /\ actionRes.status = "redirect"

\* C9 as claimed: when CreateCheckout fails with CatalogUnavailable, the
\* action redirects to the request's own URL.
C9_UnavailableRedirectsBack ==
    (ActionDone /\ checkout.state = "rejected") =>
        RedirectsTo(PageUrl(req.handle))

\* C9 as amended: when CreateCheckout fails with CatalogUnavailable, the
\* failure leaves the action as a thrown error and no redirect is returned.
C9_UnavailableEscapes ==
    (req.kind = "mutation" /\ checkout.state = "rejected") =>
        /\ actionRes.status \in {"awaiting", "throw"}
        /\ actionRes.location = "none"

\* the action has thrown on a failed CreateCheckout
C9_Witness ==
    /\ ActionDone
    /\ Truthy(req.variantId)
    /\ checkout.state = "rejected"
    /\ actionRes.status = "throw"

\* C10: when one of the two reads has failed, the loader returns no view
\* model, whether the other read succeeded before or after or not yet: it is
\* still waiting or it has thrown, and once both reads have settled it has
\* thrown or is about to.
C10_FailedReadFailsLoader ==
    (req.kind = "page" /\ (prodRead.state = "rejected" \/ listRead.state = "rejected")) =>
        /\ loaderRes.status \in {"awaiting", "throw"}
        /\ loaderRes.product = "null"
        /\ loaderRes.relatedProducts = <<>>
        /\ loaderRes.status = "awaiting" => PromiseAll(prodRead, listRead) = "rejected"

\* the loader has thrown on a failed product list while the product read
\* succeeded
C10_Witness ==
    /\ req.kind = "page"
    /\ prodRead = Fulfilled(req.handle)
    /\ listRead.state = "rejected"
    /\ loaderRes.status = "throw"

\* C11: when both reads succeed and the catalog has no product of the
\* requested handle, the loader returns a normal response with product = null
\* and relatedProducts computed as for a found product, and the page rendered
\* from it has the not-found title.
C11_NotFoundIsNormal ==
    (req.kind = "page" /\ prodRead = Fulfilled("null")
                       /\ listRead.state = "fulfilled") =>
        /\ loaderRes.status \in {"awaiting", "ok"}
        /\ loaderRes.status = "ok" =>
              /\ loaderRes.product = "null"
              /\ loaderRes.relatedProducts =
                    Reference(listRead.value, req.handle, 4)
        /\ page.status = "rendered" =>
              /\ page.title = "Product not found"
              /\ page.body = "Product not found"

\* the not-found page rendered with suggestions, the list holding the
\* requested handle all the same
C11_Witness ==
    /\ page.status = "rendered"
    /\ prodRead = Fulfilled("null")
    /\ loaderRes.product = "null"
    /\ Len(loaderRes.relatedProducts) = 4
    /\ \E i \in 1..Len(listRead.value) : listRead.value[i] = req.handle
    /\ page.title = "Product not found"

\* C12: a response carries a caching directive exactly when it is a
\* successful read: the loader's response carries the fixed Cache-Control
\* whatever the product, a loader that threw carries none, the rendered page
\* carries exactly the loader's value, and no response of the action carries
\* one.
C12_CacheControlOnReadsOnly ==
    /\ loaderRes.status = "ok" =>
          loaderRes.cacheControl =
              "max-age=60, s-maxage=3600, stale-while-revalidate=604800"
    /\ loaderRes.status # "ok" => loaderRes.cacheControl = "none"
    /\ page.status = "rendered" =>
          /\ loaderRes.status = "ok"
          /\ page.cacheControl = loaderRes.cacheControl
    /\ page.status # "rendered" => page.cacheControl = "none"
    /\ actionRes.cacheControl = "none"

\* a not-found page rendered with the fixed directive
C12_Witness ==
    /\ page.status = "rendered"
    /\ loaderRes.product = "null"
    /\ page.cacheControl = CacheControl

\* C13: the CatchBoundary renders a caught response of status 401 or 404 as a
\* page and throws on every other status; no other status is rendered.
C13_CatchBoundaryEscalates ==
    req.kind = "caught" =>
        /\ boundary.status \in Statuses
        /\ boundary.status \in {401, 404} => boundary.outcome = "page"
        /\ boundary.status \notin {401, 404} => boundary.outcome = "throw"

\* the CatchBoundary has thrown on a caught 500
C13_Witness ==
    /\ req.kind = "caught"
    /\ boundary.status = 500
    /\ boundary.outcome = "throw"

\* a read has been answered
Settled(p) == p.state \in {"fulfilled", "rejected"}

\* C14 as claimed: both reads are called before the loader awaits, and the
\* loader neither returns nor throws before both reads have settled.
C14_CompletesAfterBothSettle ==
    req.kind = "page" =>
        /\ loaderRes.status \in {"awaiting", "ok", "throw"} =>
              prodRead.state # "idle" /\ listRead.state # "idle"
        /\ loaderRes.status \in {"ok", "throw"} =>
              Settled(prodRead) /\ Settled(listRead)

\* C14 as amended: both reads are called before the loader awaits; the
\* loader returns only when both reads have succeeded, and it throws as soon
\* as one read has failed, whether or not the other has settled.
C14_JoinOnSuccessOnly ==
    req.kind = "page" =>
        /\ loaderRes.status = "pending" =>
              prodRead.state = "idle" /\ listRead.state = "idle"
        /\ loaderRes.status \in {"awaiting", "ok", "throw"} =>
              prodRead.state # "idle" /\ listRead.state # "idle"
        /\ loaderRes.status = "ok" =>
              prodRead.state = "fulfilled" /\ listRead.state = "fulfilled"
        /\ loaderRes.status = "throw" =>
              prodRead.state = "rejected" \/ listRead.state = "rejected"

\* the loader has thrown on the failed product read while the list read is
\* still in flight
C14_Witness ==
    /\ req.kind = "page"
    /\ loaderRes.status = "throw"
    /\ prodRead.state = "rejected"
    /\ listRead.state = "pending"

\* C15: no catalog operation is called a second time in a request: a page
\* request calls each read exactly once whatever the outcome, a mutation
\* request calls CreateCheckout at most once.
C15_NoRetry ==
    /\ calls.ProductByHandle <= 1 /\ calls.Products <= 1
    /\ calls.CreateCheckout <= 1
    /\ (req.kind = "page" /\ loaderRes.status \in {"awaiting", "ok", "throw"}) =>
          calls = [ProductByHandle |-> 1, Products |-> 1, CreateCheckout |-> 0]
    /\ req.kind = "mutation" =>
          /\ calls.ProductByHandle = 0 /\ calls.Products = 0
          /\ (calls.CreateCheckout = 1) = (checkout.state # "idle")

\* the loader has thrown on a failed product read, each read called once
C15_Witness ==
    /\ req.kind = "page"
    /\ loaderRes.status = "throw"
    /\ prodRead.state = "rejected"
    /\ listRead.state = "fulfilled"
    /\ calls.ProductByHandle = 1 /\ calls.Products = 1

\* C16: every response of the root loader carries a Set-Cookie that is the
\* serialized session, with and without an override, changed or not.
C16_AlwaysSetCookie ==
    RootReturned =>
        /\ rootRes.setCookie \in {"{}", "{js:false}", "{js:true}"}
        /\ rootRes.setCookie = commitSession(rootRes.session)

\* a request without an override re-issues the cookie it was sent
C16_Witness ==
    /\ RootReturned
    /\ req.js = "absent"
    /\ cookie = "{js:true}"
    /\ rootRes.setCookie = cookie

\* C17: in one request the session's js is read at most once and written at
\* most once and never both: an override writes and does not read, a request
\* without one reads and does not write.
C17_ReadOrWriteOnce ==
    /\ sessionOps.gets + sessionOps.sets <= 1
    /\ RootReturned =>
          sessionOps = IF req.js = "absent" THEN [gets |-> 1, sets |-> 0]
                       ELSE [gets |-> 0, sets |-> 1]

\* an override on a session that held no preference: one write, no read
C17_Witness ==
    /\ RootReturned
    /\ req.js = "0"
    /\ getSession(cookie) = "undefined"
    /\ sessionOps = [gets |-> 0, sets |-> 1]

\* C18: a js parameter that is present with any value but "1" resolves the
\* flag to false and writes js = false to the session.
C18_OtherValuesMeanFalse ==
    (RootReturned /\ req.js \notin {"absent", "1"}) =>
        /\ rootRes.js = "false"
        /\ ~Scripts(rootRes.js)
        /\ rootRes.session = "false"
        /\ getSession(rootRes.setCookie) = "false"

\* ?js=true on a session that held js = true
C18_Witness ==
    /\ RootReturned
    /\ req.js = "true"
    /\ getSession(cookie) = "true"
    /\ rootRes.session = "false"

\* C19: the session the browser holds changes only in a page request with an
\* override, and then to that override's boolean: a session that holds true
\* or false never goes back to holding nothing.
C19_NeverBackToUnset ==
    [][/\ getSession(cookie') # getSession(cookie) =>
            /\ req.kind = "page"
            /\ req.js # "absent"
            /\ getSession(cookie') = Bool(req.js = "1")
       /\ getSession(cookie) # "undefined" => getSession(cookie') # "undefined"
      ]_vars

\* ?js=0 answered on a session that held js = true: true is about to become
\* false
C19_Witness ==
    /\ RootReturned
    /\ req.js = "0"
    /\ getSession(cookie) = "true"
    /\ rootRes.setCookie = "{js:false}"

====
